---- MODULE Spec2Model ----
(***************************************************************************)
(* Model of the AiTradingBot: the SessionManager state machine, the        *)
(* TradingBot.run_cycle loop of the main thread, and the TelegramListener  *)
(* thread that handles operator commands concurrently with it.             *)
(*                                                                         *)
(* Two threads share the SessionManager and the paused flag without any    *)
(* lock.  Every attribute load / store of the source is one atomic step of *)
(* the model where another thread can observe the difference; statements   *)
(* that touch only thread-local data are merged into one step.             *)
(***************************************************************************)
EXTENDS Integers, Sequences, FiniteSets, TLC

(***************************************************************************)
(* Bounds of the model                                                     *)
(***************************************************************************)
\* number of run_cycle invocations explored
MaxCycles == 2

(***************************************************************************)
(* Program constants                                                       *)
(***************************************************************************)
\* session window of SessionManager.update_session_status: 7 <= hour < 21
SessionOpenHour == 7
SessionCloseHour == 21

Biases == {"NEUTRAL", "BULLISH", "BEARISH"}

\* SessionManager.__init__ : key_levels = {"support": 0.0, "resistance": 0.0}
ZeroLevels == [support |-> 0, resistance |-> 0]

\* key structures a caller may hand to update_strategic_view
KeyStructures == { [support |-> 1, resistance |-> 2], [support |-> 3, resistance |-> 4] }

\* daily / 4-hour trend tags the market shows during one cycle, and a caller may hand
\* to update_strategic_view
TrendTagPairs ==
    { [daily |-> "BULLISH", h4 |-> "BULLISH"], [daily |-> "BEARISH", h4 |-> "BEARISH"],
      [daily |-> "BULLISH", h4 |-> "BEARISH"], [daily |-> "NEUTRAL", h4 |-> "NEUTRAL"] }

\* settings.symbol_list for SYMBOLS = "XAUUSD, GBPUSD"
symbol_list == << "XAUUSD", "GBPUSD" >>

NoContext == [session_status |-> "NONE", locked_bias |-> "NONE",
              key_levels |-> ZeroLevels, bias_src |-> "none", levels_src |-> "none"]
NoHour == -1
Hours == 0..23
NoArgs == [daily_trend |-> "NONE", h4_trend |-> "NONE", key_structure |-> ZeroLevels]
\* no final alpha score was handed to analyze_market
NotAsked == [k |-> "none", v |-> 0]
NoResult == [outcome |-> "NONE", action |-> "NONE", risk_pct |-> -1, volume |-> 0,
             brain_alpha |-> NotAsked]
\* no open position at the venue
NoPosition == [type |-> "NONE", entry |-> 0, sl |-> 0, volume |-> 0, comment |-> ""]
NoTags == [daily |-> "NONE", h4 |-> "NONE"]
\* nothing asked of the venue for the position
NoRequests == [breakeven |-> 0, partial |-> 0]
\* no update received yet
NoMessage == [chat |-> "", text |-> ""]
\* a handler run that sent no notification and called no broker method
NoEffects == [sends |-> 0, broker_calls |-> 0]

VARIABLES
    hour,            \* update_session_status's local `hour`, NoHour outside the call
    current_session, \* SessionManager.current_session
    strategic_bias,  \* SessionManager.strategic_bias
    key_levels,      \* SessionManager.key_levels
    bias_writer,     \* history: which of reset / update_strategic_view stored strategic_bias last
    levels_writer,   \* history: which of reset / update_strategic_view stored key_levels last
    paused,          \* TradingBot.paused
    cycles_run,      \* TradingBot.cycles_run
    pc,              \* position of the main thread
    context,         \* run_cycle's local `context` (the dict get_context builds)
    usv_args,        \* arguments of the update_strategic_view call in progress
    sym,             \* index into settings.symbol_list of run_cycle's for loop
    trend_tags,      \* daily / 4-hour trend of the market during the running cycle
    result,          \* what the last loop iteration of run_cycle did
    lpc,             \* position of the listener thread
    bundle,          \* SpecScoring: the bundle handed to get_market_state
    market_state,    \* SpecScoring: what get_market_state returned for it
    weights,         \* AlphaStack.weights, in hundredths
    position,        \* the venue: the open position the bot's first executed trade made
    requests,        \* history: how often manage_positions asked the venue to move that
                     \* position's stop to breakeven and to close a part of it
    message,         \* SpecListener: the update _poll_updates handed to _handle_message last
    effects,         \* SpecListener: what the handling of that message sent and called
    enabled,         \* SpecNotifier: TelegramNotifier.enabled
    npc,             \* SpecNotifier: position of the thread inside TelegramNotifier.send
    attempt,         \* SpecNotifier: send's loop variable
    parse_mode,      \* SpecNotifier: whether send's payload still has its parse_mode key
    http_log         \* SpecNotifier: history, the outcome of every post send has made

vars == << hour, current_session, strategic_bias, key_levels, bias_writer, levels_writer,
           paused, cycles_run, pc, context, usv_args, sym, trend_tags, result, lpc,
           bundle, market_state, weights, position, requests, message, effects,
           enabled, npc, attempt, parse_mode, http_log >>

\* the variables only a call of TelegramNotifier.send changes
notifier_vars == << enabled, npc, attempt, parse_mode, http_log >>
\* the variables only the listener's message handling and the notifier change
io_vars == << message, effects, notifier_vars >>

session_vars == << current_session, strategic_bias, key_levels, bias_writer, levels_writer >>

(***************************************************************************)
(* SessionManager                                                          *)
(***************************************************************************)
\* the test `7 <= hour < 21`
InSessionWindow(h) == SessionOpenHour <= h /\ h < SessionCloseHour

\* TradingBot.is_trading_hours: 7 <= current_hour < 22
TradingOpenHour == 7
TradingCloseHour == 22
is_trading_hours(current_hour) ==
    TradingOpenHour <= current_hour /\ current_hour < TradingCloseHour

\* the market status of the /status command: OPEN if 7 <= hour < 22, else CLOSED
StatusOpenHour == 7
StatusCloseHour == 22
mkt_status(h) == IF StatusOpenHour <= h /\ h < StatusCloseHour THEN "OPEN" ELSE "CLOSED"

\* update_session_status without the reset of the bias when the session opens
update_session_status_keeps_bias_on_open(h, sess, bias) ==
    IF InSessionWindow(h) THEN << "OPEN", bias >> ELSE << "CLOSED", "NEUTRAL" >>

\* update_session_status without the reset of the bias when the session closes
update_session_status_keeps_bias_on_close(h, sess, bias) ==
    IF InSessionWindow(h)
    THEN << "OPEN", IF sess = "CLOSED" THEN "NEUTRAL" ELSE bias >>
    ELSE << "CLOSED", bias >>

\* update_session_status resetting the bias on every in-window call
update_session_status_always_resets(h, sess, bias) ==
    IF InSessionWindow(h) THEN << "OPEN", "NEUTRAL" >> ELSE << "CLOSED", "NEUTRAL" >>

\* SessionManager.update_session_status, as the pair <<current_session, strategic_bias>>
\* it leaves behind when it reads hour h in state <<sess, bias>>
update_session_status(h, sess, bias) ==
    IF InSessionWindow(h)
    THEN << "OPEN", IF sess = "CLOSED" THEN "NEUTRAL" ELSE bias >>
    ELSE << "CLOSED", "NEUTRAL" >>

\* the condition `daily_trend == h4_trend and daily_trend != "NEUTRAL"`
TrendsAlign(daily_trend, h4_trend) == daily_trend = h4_trend /\ daily_trend # "NEUTRAL"

(***************************************************************************)
(* Floating point values of the scoring code.  A value is a finite number  *)
(* in fixed point (FP units per 1.0), NaN, or an infinity; pandas / numpy  *)
(* arithmetic on them never raises.                                        *)
(***************************************************************************)
FP == 10000

Num(n) == [k |-> "num", v |-> n]
NaN == [k |-> "nan", v |-> 0]
PInf == [k |-> "inf", v |-> 1]
NInf == [k |-> "inf", v |-> -1]
\* what pandas_ta hands back for a series shorter than the indicator length
None == [k |-> "none", v |-> 0]

IsNum(x) == x.k = "num"
IsNaN(x) == x.k = "nan"

\* a - b of two prices (finite or NaN)
FSub(a, b) == IF IsNum(a) /\ IsNum(b) THEN Num(a.v - b.v) ELSE NaN

\* abs(x)
FAbs(x) == IF IsNum(x) THEN Num(IF x.v < 0 THEN -x.v ELSE x.v)
           ELSE IF x.k = "inf" THEN PInf ELSE NaN

\* a / b of two quantities of the same unit, the quotient in FP units:
\* x/0 is an infinity, 0/0 and anything with NaN is NaN
FDiv(a, b) ==
    IF IsNaN(a) \/ IsNaN(b) THEN NaN
    ELSE IF a.k = "inf" THEN (IF b.k = "inf" THEN NaN
                              ELSE IF b.v < 0 THEN [k |-> "inf", v |-> -a.v] ELSE a)
    ELSE IF b.k = "inf" THEN Num(0)
    ELSE IF b.v = 0 THEN (IF a.v > 0 THEN PInf ELSE IF a.v < 0 THEN NInf ELSE NaN)
    ELSE IF a.v >= 0 THEN Num((a.v * FP) \div b.v)
    ELSE Num(-(((-a.v) * FP) \div b.v))

\* x * num / den for a finite positive rational constant num/den
FScale(x, num, den) == IF IsNum(x) THEN Num((x.v * num) \div den) ELSE x

\* x <= c and x > c for a finite c in FP units; every comparison with NaN is false
FLe(x, c) == IF IsNum(x) THEN x.v <= c ELSE x = NInf
FGt(x, c) == IF IsNum(x) THEN x.v > c ELSE x = PInf
FLt(x, c) == IF IsNum(x) THEN x.v < c ELSE x = NInf

\* np.clip(x, lo, hi): NaN stays NaN
FClip(x, lo, hi) ==
    IF IsNaN(x) THEN NaN
    ELSE IF x = PInf THEN Num(hi)
    ELSE IF x = NInf THEN Num(lo)
    ELSE Num(IF x.v < lo THEN lo ELSE IF x.v > hi THEN hi ELSE x.v)

\* min(a, b) and max(a, b) of two integers
Min(a, b) == IF a <= b THEN a ELSE b
Max(a, b) == IF a >= b THEN a ELSE b

(***************************************************************************)
(* Feature extractors, evaluated on the last bar of one timeframe.         *)
(* A timeframe input is the last bar and the indicator values pandas and   *)
(* pandas_ta compute for it; `bars` is the length of the candle series,    *)
(* which decides which indicators exist at all.                            *)
(***************************************************************************)
\* LiquidityScore.__init__ : lookback=20, proximity_threshold=0.5
LiqLookback == 20
LiqThreshold == 5000
\* ta.atr(..., length=14)
AtrLength == 14
\* FairValueScore.__init__ : ema_period=50 ; VolatilityScore.__init__ : avg_period=50
FvEmaPeriod == 50
VolAvgPeriod == 50
\* MomentumScore.__init__ : fast=9, slow=21
MomFast == 9
MomSlow == 21

\* ta.atr: None below `length` bars; the first true range is undefined, so the smoothed
\* value exists from bar length + 1 on
atr_of(tf) ==
    IF tf.bars < AtrLength THEN None ELSE IF tf.bars = AtrLength THEN NaN ELSE Num(tf.atr)
\* the rolling window taken without the shift: the last bar and the lookback - 1 bars
\* before it
recent_low_of_unshifted(tf) ==
    IF tf.bars < LiqLookback THEN NaN ELSE Num(Min(tf.mid_low, tf.low))
\* df['low'].shift(1).rolling(lookback).min() at the last bar: the lookback bars before
\* it, that is, the oldest bar of the window (old_low) and the lookback - 1 bars
\* between that one and the last (mid_low); NaN until lookback prior bars exist
recent_low_of(tf) ==
    IF tf.bars < LiqLookback + 1 THEN NaN ELSE Num(Min(tf.old_low, tf.mid_low))
\* df['high'].shift(1).rolling(lookback).max() at the last bar
recent_high_of(tf) ==
    IF tf.bars < LiqLookback + 1 THEN NaN ELSE Num(Max(tf.old_high, tf.mid_high))
\* ta.ema(close, length): None below `length` bars
ema_of(tf, length, value) == IF tf.bars < length THEN None ELSE Num(value)
\* atr_series.rolling(period).mean(): NaN until `period` defined ATR values exist
atr_avg_of(tf) == IF tf.bars < AtrLength + VolAvgPeriod THEN NaN ELSE Num(tf.atr_avg)

\* one side of LiquidityScore.calculate: the nested np.where over a distance
side_score(dist) ==
    IF FLe(dist, 0) THEN FP
    ELSE IF FLe(dist, LiqThreshold) THEN FP - ((dist.v * FP) \div LiqThreshold)
    ELSE 0

\* LiquidityScore.calculate with the tag decided by >=, so that a tie goes to the low side
LiquidityScore_tie_to_support(tf, atr) ==
    LET dist_low == FDiv(FSub(Num(tf.low), recent_low_of(tf)), atr)
        dist_high == FDiv(FSub(recent_high_of(tf), Num(tf.high)), atr)
        score_low == side_score(dist_low)
        score_high == side_score(dist_high)
    IN  [score |-> Num(IF score_low >= score_high THEN score_low ELSE score_high),
         score_low |-> score_low,
         score_high |-> score_high,
         tag |-> IF score_low >= score_high THEN "SUPPORT_LOW" ELSE "RESISTANCE_HIGH"]

\* LiquidityScore.calculate on the last bar: the score, both side scores and the tag
LiquidityScore(tf, atr) ==
    LET dist_low == FDiv(FSub(Num(tf.low), recent_low_of(tf)), atr)
        dist_high == FDiv(FSub(recent_high_of(tf), Num(tf.high)), atr)
        score_low == side_score(dist_low)
        score_high == side_score(dist_high)
    IN  [score |-> Num(IF score_low >= score_high THEN score_low ELSE score_high),
         score_low |-> score_low,
         score_high |-> score_high,
         tag |-> IF score_low > score_high THEN "SUPPORT_LOW" ELSE "RESISTANCE_HIGH"]

\* FairValueScore.calculate on the last bar (fair_value is not None)
FairValueScore(tf, atr) ==
    LET z_raw == FDiv(FSub(Num(tf.close), Num(tf.ema50)), atr)
    IN  FClip(FScale(FAbs(z_raw), 10, 25), 0, FP)

\* VolatilityScore.calculate on the last bar
VolatilityScore(tf, atr) == FClip(FDiv(atr, atr_avg_of(tf)), 0, FP)

\* MomentumScore.calculate on the last bar (both EMAs are not None)
MomentumScore(tf) ==
    LET gap == FDiv(FAbs(FSub(Num(tf.ema9), Num(tf.ema21))), Num(tf.close))
    IN  FClip(FScale(gap, 1000, 1), 0, FP)

\* AlphaStack.__init__ : the weights, in hundredths
WeightStructure == 35
WeightReversion == 30
WeightVolatility == 20
WeightMomentum == 15

\* the dict literal of AlphaStack.__init__
ShippedWeights == [structure |-> WeightStructure, reversion |-> WeightReversion,
                   volatility |-> WeightVolatility, momentum |-> WeightMomentum]

\* AlphaStack.__init__ for a weight table: the table becomes self.weights as it is,
\* no statement of the constructor looks at its sum
AlphaStack(table) == table

\* AlphaStack.get_total_alpha, in units of 1/(100*FP), clipped to [0, 1]; self is the
\* stack, that is, its weights
get_total_alpha(self, s, r, v, m) ==
    IF IsNaN(s) \/ IsNaN(r) \/ IsNaN(v) \/ IsNaN(m) THEN NaN
    ELSE FClip(Num(self.structure * s.v + self.reversion * r.v
                   + self.volatility * v.v + self.momentum * m.v), 0, 100 * FP)

\* round(float(x), 2) of a value given in units of 1/(100*FP); the result in FP units.
\* Python rounds an exact tie to the even neighbour.
round2_total(x) ==
    IF ~IsNum(x) THEN x
    ELSE LET q == x.v \div FP
             rem == x.v % FP
             h == IF 2 * rem > FP THEN q + 1
                  ELSE IF 2 * rem < FP THEN q
                  ELSE IF q % 2 = 0 THEN q ELSE q + 1
         IN  Num(h * 100)

\* round(float(x), 2) of a score in FP units
round2(x) == round2_total(IF IsNum(x) THEN Num(100 * x.v) ELSE x)

RaisedTf == [raised |-> TRUE, alpha |-> NaN, total |-> NaN, structure |-> NaN, reversion |-> NaN,
             volatility |-> NaN, momentum |-> NaN, structure_type |-> "NONE"]

\* AlphaModel._process_tf: the dict it returns, or raised = TRUE when it throws
\* (atr is None: Series / None; an EMA is None: np.zeros_like(...) has no .iloc);
\* self is the model's stack
process_tf(self, tf) ==
    LET atr == atr_of(tf)
    IN  IF atr = None THEN RaisedTf
        ELSE IF ema_of(tf, FvEmaPeriod, tf.ema50) = None THEN RaisedTf
        ELSE IF ema_of(tf, MomFast, tf.ema9) = None \/ ema_of(tf, MomSlow, tf.ema21) = None
             THEN RaisedTf
        ELSE LET liq == LiquidityScore(tf, atr)
                 last_s == liq.score
                 last_r == FairValueScore(tf, atr)
                 last_v == VolatilityScore(tf, atr)
                 last_m == MomentumScore(tf)
                 total_alpha == get_total_alpha(self, last_s, last_r, last_v, last_m)
             IN  [raised |-> FALSE,
                  alpha |-> round2_total(total_alpha),
                  \* the local total_alpha, kept next to the dict that is returned
                  total |-> total_alpha,
                  structure |-> round2(last_s),
                  reversion |-> round2(last_r),
                  volatility |-> round2(last_v),
                  momentum |-> round2(last_m),
                  structure_type |-> liq.tag]

\* thresholds of get_market_state (0.60, 0.85) in FP units
ReviewThreshold == 6000
ConvictionThreshold == 8500

\* the status tag of AlphaModel.get_market_state
status_of(alpha) ==
    IF FGt(alpha, ConvictionThreshold) THEN "HIGH_CONVICTION"
    ELSE IF FGt(alpha, ReviewThreshold) THEN "REVIEW_REQUIRED"
    ELSE "WAIT"

RaisedState == [raised |-> TRUE, final_alpha_score |-> NaN, status |-> "NONE",
                m5_metrics |-> RaisedTf, h1_context |-> RaisedTf]

\* AlphaModel.get_market_state: data_bundle maps timeframe names to candle series;
\* a missing 'M5' or 'H1' key is a KeyError; self is the model's stack
get_market_state(self, data_bundle) ==
    IF "M5" \notin DOMAIN data_bundle THEN RaisedState
    ELSE LET m5_alpha == process_tf(self, data_bundle["M5"])
         IN  IF m5_alpha.raised THEN RaisedState
             ELSE IF "H1" \notin DOMAIN data_bundle THEN RaisedState
             ELSE LET h1_alpha == process_tf(self, data_bundle["H1"])
                  IN  IF h1_alpha.raised THEN RaisedState
                      ELSE [raised |-> FALSE,
                            final_alpha_score |-> m5_alpha.alpha,
                            status |-> status_of(m5_alpha.alpha),
                            m5_metrics |-> m5_alpha,
                            h1_context |-> h1_alpha]

(***************************************************************************)
(* Candle inputs                                                           *)
(***************************************************************************)
BasePrice == 2000

\* a timeframe input around BasePrice: atr, low - old_low, old_high - high,
\* close - ema50, the rolling ATR mean and ema9 - ema21
MkTf(bars, atr, dlow, dhigh, dema, atr_avg, gap) ==
    LET half == IF atr = 0 THEN 0 ELSE 1
    IN  [bars |-> bars, low |-> BasePrice - half, high |-> BasePrice + half, close |-> BasePrice,
         \* the bar `lookback` bars back carries the swing levels; the bars between it
         \* and the last one stay inside the last bar's range
         old_low |-> BasePrice - half - dlow, old_high |-> BasePrice + half + dhigh,
         mid_low |-> BasePrice, mid_high |-> BasePrice,
         atr |-> atr, atr_avg |-> atr_avg, ema50 |-> BasePrice - dema,
         ema9 |-> BasePrice + gap, ema21 |-> BasePrice]

BarCounts == {10, 30, 55, 300}
AtrValues == {4, 10}
LevelDists == {-2, 0, 1, 3, 8}
EmaDists == {-30, 0, 5}
AtrAvgs == {4, 8, 20}
EmaGaps == {0, 1, 3}

\* a series whose bars are all equal: every true range is 0, so ATR and its mean are 0
\* and every level and average sits on the close
FlatTf(bars) == MkTf(bars, 0, 0, 0, 0, 0, 0)

\* a series whose weighted sum is 0.35 + 0.30 * 0.5033 + 0.20 + 0.15, just above 0.85:
\* a swept low, the close 151/120 ATR from its EMA, ATR at its average, the EMAs apart
NearConvictionTf == MkTf(300, 120, 0, 8, 151, 120, 3)

TfInputs ==
    { MkTf(b, a, dl, dh, de, av, g) :
        b \in BarCounts, a \in AtrValues, dl \in LevelDists, dh \in LevelDists,
        de \in EmaDists, av \in AtrAvgs, g \in EmaGaps }
    \cup { FlatTf(b) : b \in BarCounts }
    \cup { NearConvictionTf }

\* a well-formed higher-timeframe series, and one that is too short
GoodTf == MkTf(300, 4, 3, 8, 5, 8, 1)
ShortTf == MkTf(10, 4, 3, 8, 5, 8, 1)

\* MT5Broker.get_multi_timeframe_data: the timeframes of the bundle it builds
MT5Timeframes == {"D1", "H4", "H1", "M15"}

\* a bundle with the given timeframes, whose M5 and H1 series are m5 and h1
MkBundle(keys, m5, h1) ==
    [name \in keys |-> IF name = "M5" THEN m5 ELSE IF name = "H1" THEN h1 ELSE GoodTf]

\* no bundle: get_multi_timeframe_data returned None
NoBundle == [name \in {} |-> GoodTf]

\* bundles handed to get_market_state: the broker's own, and bundles of a data source
\* that also carries the M5 series get_market_state reads
Bundles ==
    { MkBundle(MT5Timeframes, GoodTf, GoodTf) }
    \cup { MkBundle(MT5Timeframes \cup {"M5"}, m5, h1) : m5 \in TfInputs, h1 \in {GoodTf, ShortTf} }

NoState == [raised |-> FALSE, final_alpha_score |-> NaN, status |-> "NONE",
            m5_metrics |-> RaisedTf, h1_context |-> RaisedTf]

(***************************************************************************)
(* Initial state: TradingBot.__init__ and SessionManager.__init__          *)
(***************************************************************************)
InitBot ==
    /\ current_session = "CLOSED"
    /\ strategic_bias = "NEUTRAL"
    /\ key_levels = ZeroLevels
    /\ bias_writer = "init"
    /\ levels_writer = "init"
    /\ paused = FALSE
    /\ cycles_run = 0
    /\ pc = "sleep"
    /\ context = NoContext
    /\ usv_args = NoArgs
    /\ sym = 0
    /\ trend_tags = NoTags
    /\ result = NoResult
    /\ lpc = "poll"
    /\ position = NoPosition
    /\ requests = NoRequests
    /\ message = NoMessage
    /\ effects = NoEffects
    /\ npc = "idle"
    /\ attempt = 0
    /\ parse_mode = TRUE
    /\ http_log = << >>

Init ==
    /\ hour = NoHour
    /\ InitBot
    /\ enabled = TRUE
    /\ bundle = NoBundle
    /\ market_state = NoState
    /\ weights = AlphaStack(ShippedWeights)

scoring_vars == << bundle, market_state, weights >>
main_locals == << pc, context, usv_args, sym, trend_tags, result >>

(***************************************************************************)
(* Main thread: TradingBot.run_cycle                                       *)
(***************************************************************************)
\* while self.running: run_cycle() ...  The first statements of run_cycle:
\* self.cycles_run += 1 ; self.session.update_session_status()
RunCycleBegin ==
    /\ pc = "sleep"
    /\ cycles_run < MaxCycles
    /\ cycles_run' = cycles_run + 1
    /\ \E h \in Hours :
          /\ hour' = h
          /\ LET after == update_session_status(h, current_session, strategic_bias)
             IN  /\ current_session' = after[1]
                 /\ strategic_bias' = after[2]
    /\ pc' = "get_context"
    /\ UNCHANGED << key_levels, bias_writer, levels_writer, paused, context, usv_args,
                    sym, trend_tags, result, lpc, scoring_vars, position, requests, io_vars >>

\* get_context: the loads of self.current_session and self.strategic_bias
GetContextBias ==
    /\ pc = "get_context"
    /\ context' = [session_status |-> current_session, locked_bias |-> strategic_bias,
                   key_levels |-> ZeroLevels, bias_src |-> bias_writer, levels_src |-> "none"]
    /\ pc' = "get_context_levels"
    /\ hour' = NoHour
    /\ UNCHANGED << session_vars, paused, cycles_run, usv_args, sym, trend_tags, result,
                    lpc, scoring_vars, position, requests, io_vars >>

\* get_context: the load of self.key_levels, and the return into `context`
GetContextLevels ==
    /\ pc = "get_context_levels"
    /\ context' = [context EXCEPT !.key_levels = key_levels, !.levels_src = levels_writer]
    /\ pc' = "gate"
    /\ UNCHANGED << hour, session_vars, paused, cycles_run, usv_args, sym, trend_tags, result,
                    lpc, scoring_vars, position, requests, io_vars >>

\* the two returns with only the paused flag looked at
cycle_returns_early_paused_only(session_status, is_paused) == is_paused

\* if context['session_status'] == "CLOSED": return ; if self.paused: return
cycle_returns_early(session_status, is_paused) == session_status = "CLOSED" \/ is_paused

CycleGate ==
    /\ pc = "gate"
    /\ IF cycle_returns_early(context.session_status, paused)
       THEN /\ pc' = "sleep"
            /\ context' = NoContext
       ELSE /\ pc' = "manage"
            /\ UNCHANGED context
    /\ UNCHANGED << hour, session_vars, paused, cycles_run, usv_args, sym, trend_tags, result,
                    lpc, scoring_vars, position, requests, io_vars >>

\* round(x) of the non-negative quotient num / den, ties to the even neighbour
round_div(num, den) ==
    LET q == num \div den
        rem == num % den
    IN  IF 2 * rem > den THEN q + 1
        ELSE IF 2 * rem < den THEN q
        ELSE IF q % 2 = 0 THEN q ELSE q + 1

Abs(n) == IF n < 0 THEN -n ELSE n

\* how far the price may have moved in the position's favour when manage_positions
\* runs: 0.5R, 1.0R and 1.2R for a stop SlDist away
FavourableMoves == {5, 10, 12}

\* mt5.symbol_info_tick(symbol).bid / .ask for a position after a favourable move
quote_of(trade, move) == IF trade.type = "BUY" THEN trade.entry + move ELSE trade.entry - move

\* the test `"Partial" not in trade.comment`, negated
HasPartial(comment) == comment \in {"Partial", "Partial Taken"}

\* the body of the for loop of manage_positions for one open trade quoted at curr: whether
\* it calls modify_position (breakeven) and close_partial (partial), and the volume it
\* asks to close (volumes in hundredths of a lot)
manage_requests(trade, curr) ==
    LET entry == trade.entry
        profit_points == IF trade.type = "BUY" THEN curr - entry ELSE entry - curr
        sl_dist == IF trade.sl > 0 THEN Abs(entry - trade.sl) ELSE 0
        is_at_be == IF trade.type = "BUY" THEN trade.sl >= entry ELSE trade.sl <= entry
        \* vol = round(trade.volume * 0.4, 2)
        vol == round_div(4 * trade.volume, 10)
    IN  [\* r = profit_points / sl_dist ; r >= 1.2 and not is_at_be
         breakeven |-> sl_dist > 0 /\ 10 * profit_points >= 12 * sl_dist /\ ~is_at_be,
         \* r >= 1.0 and "Partial" not in trade.comment, and vol >= 0.01
         partial |-> sl_dist > 0 /\ profit_points >= sl_dist /\ ~HasPartial(trade.comment)
                     /\ vol >= 1,
         vol |-> vol]

\* the position the venue holds after the modify_position and close_partial calls of
\* manage_positions: the stop at the entry, the closed volume gone, the comment as it was
manage_position(trade, curr) ==
    LET req == manage_requests(trade, curr)
    IN  [trade EXCEPT !.sl = IF req.breakeven THEN trade.entry ELSE @,
                      !.volume = IF req.partial THEN @ - req.vol ELSE @]

\* the request counts after manage_positions has handled the trade quoted at curr
count_requests(counts, trade, curr) ==
    LET req == manage_requests(trade, curr)
    IN  [breakeven |-> counts.breakeven + (IF req.breakeven THEN 1 ELSE 0),
         partial |-> counts.partial + (IF req.partial THEN 1 ELSE 0)]

\* try: self.manage_positions() except: log ; then the for loop over the symbols starts
\* on the market of this cycle
ManagePositions ==
    /\ pc = "manage"
    /\ pc' = "analyze"
    /\ sym' = 1
    /\ trend_tags' \in TrendTagPairs
    /\ \E move \in FavourableMoves :
          IF position = NoPosition
          THEN UNCHANGED << position, requests >>
          ELSE /\ position' = manage_position(position, quote_of(position, move))
               /\ requests' = count_requests(requests, position, quote_of(position, move))
    /\ UNCHANGED << hour, session_vars, paused, cycles_run, context, usv_args, result,
                    lpc, scoring_vars, io_vars >>

\* spread limits of run_cycle in tenths of a pip: 5.0 for gold, 3.0 otherwise
max_spread(symbol) == IF symbol = "XAUUSD" THEN 50 ELSE 30

\* alpha gate of run_cycle: final_alpha_score < 0.45
AlphaGate == 4500

\* decision.get('risk_percentage', 0.5) in hundredths of a percent; NoRisk when the
\* decision has no such key
NoRisk == -1
DefaultRisk == 50
\* what the brain may answer: no risk_percentage at all, the 0.0 of its prompt
\* template, or 5.0
RiskAnswers == {NoRisk, 0, 500}

\* what the decision collaborator may hand back: decision['action'] (MISSING when the key
\* is absent), whether the stop_loss / take_profit keys are there, and risk_percentage
Decisions == [action : {"BUY", "SELL", "HOLD", "MISSING"}, stops : BOOLEAN, risk : RiskAnswers]

\* the venue's account and symbol data read by calculate_lot_size: balance, tick value and
\* tick size, and the volume step, minimum and maximum in hundredths of a lot
AccountBalance == 10000
TickValue == 1
TickSize == 1
VolumeStep == 1
VolumeMin == 1
VolumeMax == 10000
\* distance of decision['stop_loss'] from the entry price
SlDist == 10

\* MT5Broker.calculate_lot_size with account and symbol info present: risk_pct in
\* hundredths of a percent, the lot size in hundredths of a lot
calculate_lot_size(risk_pct, sl_price, entry_price) ==
    LET sl_dist == Abs(entry_price - sl_price)
    IN  IF sl_dist = 0 THEN 1
        ELSE \* raw_lot = balance * (risk_pct / 100) / (sl_dist / tick_size * tick_val),
             \* then round(raw_lot / step) * step
             LET steps == round_div(AccountBalance * risk_pct * TickSize * 100,
                                    10000 * sl_dist * TickValue * VolumeStep)
             IN  Max(VolumeMin, Min(steps * VolumeStep, VolumeMax))

\* the stop the decision carries for an entry at price
stop_loss_of(action, price) == IF action = "BUY" THEN price - SlDist ELSE price + SlDist

\* the bias check with its BUY half missing
BlockedByBias_sell_only(action, locked_bias) == action = "SELL" /\ locked_bias = "BULLISH"

\* the `if decision['action'] == ... and context['locked_bias'] == ...: continue` pair
BlockedByBias(action, locked_bias) ==
    \/ action = "BUY" /\ locked_bias = "BEARISH"
    \/ action = "SELL" /\ locked_bias = "BULLISH"

\* bundles and spreads the broker hands to a cycle
CycleBundles ==
    { MkBundle(MT5Timeframes, GoodTf, GoodTf),
      MkBundle(MT5Timeframes \cup {"M5"}, MkTf(300, 4, 0, 8, -30, 4, 3), GoodTf),
      MkBundle(MT5Timeframes \cup {"M5"}, GoodTf, GoodTf),
      MkBundle(MT5Timeframes \cup {"M5"}, FlatTf(300), GoodTf),
      MkBundle(MT5Timeframes \cup {"M5"}, ShortTf, GoodTf) }
\* spreads in tenths of a pip: inside both limits, between them, and the 100 pips
\* run_cycle assumes when the live metrics carry no spread
Spreads == {10, 40, 1000}
\* the dict analyze_market returns when the model call or the parsing of its answer fails
HoldDecision == [action |-> "HOLD", stops |-> FALSE, risk |-> NoRisk]

\* a bundle that passes the alpha gate
TradeBundle == MkBundle(MT5Timeframes \cup {"M5"}, MkTf(300, 4, 0, 8, -30, 4, 3), GoodTf)

\* get_market_state of the bot's AlphaModel on each bundle a cycle may see
cycle_packets ==
    [b \in CycleBundles \cup {TradeBundle} |-> get_market_state(AlphaStack(ShippedWeights), b)]

\* an iteration that sent no order
Skipped(outcome, action) ==
    [outcome |-> outcome, action |-> action, risk_pct |-> NoRisk, volume |-> 0]

\* MT5Broker.execute_trade with the venue connected and quoting: the order it sends
execute_trade(action, price, risk_pct) ==
    [outcome |-> "TRADE", action |-> action, risk_pct |-> risk_pct,
     volume |-> calculate_lot_size(risk_pct, stop_loss_of(action, price), price)]

\* one iteration of the for loop of run_cycle: what it does for a symbol, given what the
\* broker returns (data is "RAISE", "NONE" or a bundle; spread in tenths of a pip), what
\* the brain returns and whether notifier.send returns ("OK") or throws ("RAISE")
\* the outcome of an iteration that never called analyze_market
unasked(res) == res @@ [brain_alpha |-> NotAsked]
\* the outcome of an iteration that called analyze_market with the packet's final alpha
asked(res, packet) == res @@ [brain_alpha |-> packet.final_alpha_score]

\* the part of the loop body that follows `alpha_packet = self.alpha.get_market_state(data)`
\* when that call returned alpha_packet or raised (alpha_packet.raised)
after_scoring(ctx, alpha_packet, decision, notify) ==
    IF alpha_packet.raised THEN unasked(Skipped("ERROR", "NONE"))
    ELSE IF FLt(alpha_packet.final_alpha_score, AlphaGate)
         THEN unasked(Skipped("LOW_ALPHA", "NONE"))
    ELSE IF decision.action = "MISSING" THEN asked(Skipped("ERROR", "NONE"), alpha_packet)
    ELSE IF decision.action \in {"BUY", "SELL"}
         THEN IF BlockedByBias(decision.action, ctx.locked_bias)
              THEN asked(Skipped("BLOCKED", decision.action), alpha_packet)
              ELSE IF notify = "RAISE"
                   THEN asked(Skipped("ERROR", decision.action), alpha_packet)
              ELSE IF ~decision.stops
                   THEN asked(Skipped("ERROR", decision.action), alpha_packet)
              ELSE asked(execute_trade(decision.action, BasePrice,
                                       IF decision.risk = NoRisk THEN DefaultRisk
                                       ELSE decision.risk), alpha_packet)
    ELSE asked(Skipped("HOLD", decision.action), alpha_packet)

\* the record also keeps the final alpha score analyze_market was called with
\* (brain_alpha), NotAsked when the iteration never called it
analyze_symbol(symbol, ctx, fetched, data, spread, decision, notify) ==
    IF fetched = "RAISE" THEN unasked(Skipped("ERROR", "NONE"))
    ELSE IF fetched = "NONE" THEN unasked(Skipped("NO_DATA", "NONE"))
    ELSE IF spread > max_spread(symbol) THEN unasked(Skipped("SPREAD", "NONE"))
    ELSE after_scoring(ctx, cycle_packets[data], decision, notify)

\* the decisions a cycle sees for it: every action with and without its stops, and a BUY
\* with each risk answer
TradeDecisions ==
    { d \in Decisions : d.risk = NoRisk \/ (d.action = "BUY" /\ d.stops) }

\* the inputs of one iteration: a failed fetch, or a bundle with a spread and a decision
SymbolInputs ==
    { [fetched |-> f, data |-> NoBundle, spread |-> 1000, decision |-> HoldDecision,
       notify |-> "OK"] : f \in {"RAISE", "NONE"} }
    \cup { [fetched |-> "DATA", data |-> TradeBundle, spread |-> sp, decision |-> HoldDecision,
            notify |-> "OK"] : sp \in Spreads }
    \cup { [fetched |-> "DATA", data |-> b, spread |-> 10, decision |-> HoldDecision,
            notify |-> "OK"] : b \in CycleBundles }
    \cup { [fetched |-> "DATA", data |-> TradeBundle, spread |-> 10, decision |-> d,
            notify |-> "OK"] : d \in TradeDecisions }
    \cup { [fetched |-> "DATA", data |-> TradeBundle, spread |-> 10,
            decision |-> [action |-> "BUY", stops |-> TRUE, risk |-> NoRisk],
            notify |-> "RAISE"] }

\* the for loop leaving the failed symbol and every symbol after it
loop_after_propagates(res, i) ==
    IF res.outcome = "ERROR" \/ i >= Len(symbol_list)
    THEN [pc |-> "end", sym |-> 0]
    ELSE [pc |-> "analyze", sym |-> i + 1]

\* where the for loop goes after the iteration for symbol number i ended with res: the
\* try / except sits inside the loop body, so a failed iteration is followed by the next
loop_after(res, i) ==
    IF i < Len(symbol_list)
    THEN [pc |-> "analyze", sym |-> i + 1]
    ELSE [pc |-> "end", sym |-> 0]

\* the position the venue holds after an iteration: an executed trade opens one
position_after(res, pos) ==
    IF res.outcome = "TRADE" /\ pos = NoPosition
    THEN [type |-> res.action, entry |-> BasePrice, sl |-> stop_loss_of(res.action, BasePrice),
          volume |-> res.volume, comment |-> "AI-Quant-Bot"]
    ELSE pos

AnalyzeSymbol ==
    /\ pc = "analyze"
    /\ \E in \in SymbolInputs :
          \E res \in { analyze_symbol(symbol_list[sym], context, in.fetched, in.data,
                                      in.spread, in.decision, in.notify) } :
              /\ result' = res
              /\ position' = position_after(res, position)
              /\ pc' = loop_after(res, sym).pc
              /\ sym' = loop_after(res, sym).sym
    /\ UNCHANGED << hour, session_vars, paused, cycles_run, context, usv_args, trend_tags,
                    lpc, scoring_vars, requests, io_vars >>

\* run_cycle returns; its locals are gone
RunCycleEnd ==
    /\ pc = "end"
    /\ pc' = "sleep"
    /\ context' = NoContext
    /\ trend_tags' = NoTags
    /\ result' = NoResult
    /\ UNCHANGED << hour, session_vars, paused, cycles_run, usv_args, sym, lpc, scoring_vars, position, requests, io_vars >>

(***************************************************************************)
(* SessionManager.update_strategic_view, called by the main thread         *)
(* between two cycles                                                      *)
(***************************************************************************)
UpdateStrategicViewCall ==
    /\ pc = "sleep"
    /\ \E t \in TrendTagPairs, k \in KeyStructures :
          usv_args' = [daily_trend |-> t.daily, h4_trend |-> t.h4, key_structure |-> k]
    /\ pc' = "usv"
    /\ UNCHANGED << hour, session_vars, paused, cycles_run, context, sym, trend_tags, result,
                    lpc, scoring_vars, position, requests, io_vars >>

\* update_strategic_view standing aside (NEUTRAL) whenever the trends disagree
usv_bias_clears_on_disagreement(daily_trend, h4_trend, bias) ==
    IF TrendsAlign(daily_trend, h4_trend) THEN daily_trend ELSE "NEUTRAL"

\* the bias update_strategic_view stores in its first statement
usv_bias(daily_trend, h4_trend, bias) ==
    IF TrendsAlign(daily_trend, h4_trend) THEN daily_trend ELSE bias

\* if daily_trend == h4_trend and daily_trend != "NEUTRAL": self.strategic_bias = daily_trend
\* elif ...: pass
UsvLockBias ==
    /\ pc = "usv"
    /\ strategic_bias' = usv_bias(usv_args.daily_trend, usv_args.h4_trend, strategic_bias)
    /\ IF TrendsAlign(usv_args.daily_trend, usv_args.h4_trend)
       THEN /\ bias_writer' = "usv"
            /\ pc' = "usv_levels"
       ELSE /\ UNCHANGED bias_writer
            /\ pc' = "usv_return"
    /\ UNCHANGED << hour, current_session, key_levels, levels_writer, paused, cycles_run,
                    context, usv_args, sym, trend_tags, result, lpc, scoring_vars, position, requests, io_vars >>

\* self.key_levels = key_structure
UsvSetLevels ==
    /\ pc = "usv_levels"
    /\ key_levels' = usv_args.key_structure
    /\ levels_writer' = "usv"
    /\ pc' = "usv_return"
    /\ UNCHANGED << hour, current_session, strategic_bias, bias_writer, paused, cycles_run,
                    context, usv_args, sym, trend_tags, result, lpc, scoring_vars, position, requests, io_vars >>

UsvReturn ==
    /\ pc = "usv_return"
    /\ pc' = "sleep"
    /\ usv_args' = NoArgs
    /\ UNCHANGED << hour, session_vars, paused, cycles_run, context, sym, trend_tags, result,
                    lpc, scoring_vars, position, requests, io_vars >>

(***************************************************************************)
(* Listener thread: TelegramListener._handle_message for the authorised    *)
(* chat                                                                    *)
(***************************************************************************)
\* "/reset", first statement: self.bot.session.strategic_bias = "NEUTRAL"
ResetBias ==
    /\ lpc = "poll"
    /\ strategic_bias' = "NEUTRAL"
    /\ bias_writer' = "reset"
    /\ lpc' = "reset_levels"
    /\ UNCHANGED << hour, current_session, key_levels, levels_writer, paused, cycles_run,
                    main_locals, scoring_vars, position, requests, io_vars >>

\* "/reset", second statement: self.bot.session.key_levels = {0.0, 0.0}, then the reply
ResetLevels ==
    /\ lpc = "reset_levels"
    /\ key_levels' = ZeroLevels
    /\ levels_writer' = "reset"
    /\ lpc' = "poll"
    /\ UNCHANGED << hour, current_session, strategic_bias, bias_writer, paused, cycles_run,
                    main_locals, scoring_vars, position, requests, io_vars >>

\* "/pause": self.bot.paused = True
Pause ==
    /\ lpc = "poll"
    /\ paused' = TRUE
    /\ UNCHANGED << hour, session_vars, cycles_run, main_locals, lpc, scoring_vars, position, requests, io_vars >>

\* "/resume": self.bot.paused = False
Resume ==
    /\ lpc = "poll"
    /\ paused' = FALSE
    /\ UNCHANGED << hour, session_vars, cycles_run, main_locals, lpc, scoring_vars, position, requests, io_vars >>

Next ==
    \/ RunCycleBegin
    \/ GetContextBias
    \/ GetContextLevels
    \/ CycleGate
    \/ ManagePositions
    \/ AnalyzeSymbol
    \/ RunCycleEnd
    \/ UpdateStrategicViewCall
    \/ UsvLockBias
    \/ UsvSetLevels
    \/ UsvReturn
    \/ ResetBias
    \/ ResetLevels
    \/ Pause
    \/ Resume

Spec == Init /\ [][Next]_vars

(***************************************************************************)
(* Properties of the session manager, the cycle and the listener           *)
(***************************************************************************)
\* a bias / key_levels pair that mixes a reset with an update_strategic_view: one field
\* was last stored by the one, the other field by the other, and the pair is neither
\* the reset's (NEUTRAL, zero) nor the update's (direction, supplied structure)
Mixed(bias, levels, bias_by, levels_by) ==
    \/ bias_by = "usv" /\ levels_by = "reset" /\ bias # "NEUTRAL" /\ levels = ZeroLevels
    \/ bias_by = "reset" /\ levels_by = "usv" /\ bias = "NEUTRAL" /\ levels # ZeroLevels

\* C1: a reset never becomes partially visible: once neither a reset nor an
\* update_strategic_view is in progress the session state is not a mix of the two, and
\* no context returned by get_context is a mix of the two
C1_ResetNeverPartiallyVisible ==
    /\ (lpc # "reset_levels" /\ pc # "usv_levels")
          => ~Mixed(strategic_bias, key_levels, bias_writer, levels_writer)
    /\ (pc \in {"gate", "manage", "analyze", "end"})
          => ~Mixed(context.locked_bias, context.key_levels, context.bias_src,
                    context.levels_src)

\* C2: update_session_status run with the hour inside the window on a CLOSED session
\* leaves the session OPEN and the bias NEUTRAL, whatever the bias was
C2_OpenForcesNeutral ==
    [][ (pc = "sleep" /\ pc' = "get_context" /\ InSessionWindow(hour')
         /\ current_session = "CLOSED")
        => (current_session' = "OPEN" /\ strategic_bias' = "NEUTRAL") ]_vars

\* the first cycle opened the session over a bias update_strategic_view had locked
C2_Witness ==
    /\ pc = "get_context" /\ InSessionWindow(hour) /\ cycles_run = 1
    /\ bias_writer = "usv" /\ levels_writer = "usv"
    /\ current_session = "OPEN" /\ strategic_bias = "NEUTRAL"

\* C3: after update_session_status has run with the hour outside the window the
\* session is CLOSED and the bias NEUTRAL
C3_OutsideWindowClosesNeutral ==
    (pc = "get_context" /\ hour \in Hours /\ ~InSessionWindow(hour))
        => (current_session = "CLOSED" /\ strategic_bias = "NEUTRAL")

\* a second cycle closed a session in which a bias had been locked
C3_Witness ==
    /\ pc = "get_context" /\ hour = SessionCloseHour /\ cycles_run = 2
    /\ bias_writer = "usv" /\ key_levels # ZeroLevels
    /\ current_session = "CLOSED" /\ strategic_bias = "NEUTRAL"

\* C4: update_session_status run with the hour inside the window on an OPEN session
\* leaves the bias and the key levels as they were, and the session OPEN
C4_OpenSessionKeepsBias ==
    [][ (pc = "sleep" /\ pc' = "get_context" /\ InSessionWindow(hour')
         /\ current_session = "OPEN")
        => (strategic_bias' = strategic_bias /\ key_levels' = key_levels
            /\ current_session' = "OPEN") ]_vars

\* a locked bias is still there after the in-window cycle that followed
C4_Witness ==
    /\ pc = "get_context" /\ InSessionWindow(hour) /\ cycles_run = 2
    /\ current_session = "OPEN" /\ strategic_bias = "BULLISH" /\ key_levels # ZeroLevels

\* C5: update_strategic_view called with two equal non-NEUTRAL trends ends with the
\* bias equal to that trend and the key levels equal to the supplied structure, the
\* session status as it was
C5_AlignedViewLocksBias ==
    [][ (pc = "usv_levels" /\ pc' = "usv_return")
        => (strategic_bias' = usv_args.daily_trend
            /\ key_levels' = usv_args.key_structure
            /\ current_session' = current_session) ]_vars

\* C6: update_strategic_view called with trends that do not agree on a non-NEUTRAL
\* direction leaves bias, key levels and session status unchanged
C6_DisagreementKeepsState ==
    [][ (pc = "usv" /\ pc' # "usv"
         /\ ~TrendsAlign(usv_args.daily_trend, usv_args.h4_trend))
        => (strategic_bias' = strategic_bias /\ key_levels' = key_levels
            /\ current_session' = current_session) ]_vars

\* daily BULLISH against H4 BEARISH over a locked BEARISH bias
C6_Witness ==
    /\ pc = "usv_return"
    /\ usv_args.daily_trend = "BULLISH" /\ usv_args.h4_trend = "BEARISH"
    /\ strategic_bias = "BEARISH" /\ key_levels # ZeroLevels

\* C7: the reset ends with the bias NEUTRAL and the key levels zero, and leaves the
\* session status and the paused flag alone
C7_ResetClearsBiasAndLevels ==
    [][ (lpc = "reset_levels" /\ lpc' = "poll")
        => (strategic_bias' = "NEUTRAL" /\ key_levels' = ZeroLevels
            /\ current_session' = current_session /\ paused' = paused) ]_vars

\* C8: a cycle that scored with the session OPEN while the daily and 4-hour trends
\* agreed on a direction ends with the bias locked to that direction
C8_CycleFeedsTrendTags ==
    (pc = "end" /\ TrendsAlign(trend_tags.daily, trend_tags.h4))
        => strategic_bias = trend_tags.daily

\* C9: no trade is executed against the locked bias of the cycle's context: no BUY
\* under BEARISH, no SELL under BULLISH
C9_BiasBlocksCounterTrend ==
    /\ (result.outcome = "TRADE" /\ result.action = "BUY") => context.locked_bias # "BEARISH"
    /\ (result.outcome = "TRADE" /\ result.action = "SELL") => context.locked_bias # "BULLISH"

\* the brain answered BUY in a cycle whose context is BEARISH, and the loop skipped it
C9_Witness ==
    /\ result.outcome = "BLOCKED" /\ result.action = "BUY"
    /\ context.locked_bias = "BEARISH"

\* C14: the risk percentage a trade is sized with lies in [0.25%, 1.00%]
C14_RiskWithinBand ==
    (result.outcome = "TRADE") => (25 <= result.risk_pct /\ result.risk_pct <= 100)

\* C15: an iteration of the symbol loop that failed (an exception in the fetch, the
\* scoring, the decision or the notification) or whose decision degraded to HOLD sends
\* no order, and the loop goes on to the next symbol, or to the end of the cycle after
\* the last one
C15_SymbolFailureContained ==
    [][ (pc = "analyze" /\ sym' # sym /\ result'.outcome \in {"ERROR", "HOLD"})
        => /\ position' = position
           /\ result'.volume = 0
           /\ IF sym < Len(symbol_list)
              THEN pc' = "analyze" /\ sym' = sym + 1
              ELSE pc' = "end"
           /\ cycles_run' = cycles_run ]_vars

\* the iteration for the first symbol failed after a BUY decision, and the second
\* symbol is about to be analysed
C15_Witness ==
    /\ pc = "analyze" /\ sym = 2
    /\ result.outcome = "ERROR" /\ result.action = "BUY"

\* C19: run_cycle executes no trade, moves no stop and takes no partial close at a
\* moment when paused is true
C19_NoTradingWhilePaused ==
    [][ ( \/ (pc = "analyze" /\ sym' # sym /\ result'.outcome = "TRADE")
          \/ (pc = "manage" /\ pc' = "analyze" /\ position' # position) )
        => ~paused ]_vars

\* C20: a cycle whose update_session_status left the session CLOSED returns from the
\* gate: it manages no position, analyses no symbol and sends no order, and changes
\* neither the counter nor the session after its first two statements
C20_ClosedCycleDoesNothing ==
    [][ (current_session = "CLOSED" /\ pc \in {"get_context", "get_context_levels", "gate"})
        => /\ pc' \in {"get_context", "get_context_levels", "gate", "sleep"}
           /\ position' = position
           /\ result' = NoResult /\ sym' = 0
           /\ cycles_run' = cycles_run /\ current_session' = "CLOSED" ]_vars

\* the second cycle found the session closed and returned, the position the first
\* cycle opened still as it was opened
C20_Witness ==
    /\ pc = "sleep" /\ cycles_run = 2 /\ current_session = "CLOSED" /\ ~paused
    /\ position # NoPosition /\ position.sl # position.entry /\ position.volume = 500

\* C24: whenever neither a reset nor an update_strategic_view is in progress, a NEUTRAL
\* bias comes with zero key levels: the levels recorded with a locked bias are gone once
\* the bias is (session close, session re-open, reset)
C24_NeutralBiasHasZeroLevels ==
    (lpc = "poll" /\ pc \notin {"usv", "usv_levels"} /\ strategic_bias = "NEUTRAL")
        => key_levels = ZeroLevels

\* C25: for the hour update_session_status has just read, is_trading_hours and the market
\* status of /status classify the hour as the session manager did
C25_SessionWindowsAgree ==
    (pc = "get_context" /\ hour \in Hours) =>
        /\ is_trading_hours(hour) <=> (current_session = "OPEN")
        /\ mkt_status(hour) = current_session

\* C23: analyze_market is called only with a final alpha score that is a defined number
\* of at least 0.45, and only such a symbol is traded
C23_AlphaGateBeforeBrain ==
    /\ (result.brain_alpha # NotAsked)
           => (IsNum(result.brain_alpha) /\ result.brain_alpha.v >= AlphaGate)
    /\ (result.outcome = "TRADE")
           => (IsNum(result.brain_alpha) /\ result.brain_alpha.v >= AlphaGate)

(***************************************************************************)
(* Scoring of one bundle, on its own                                       *)
(***************************************************************************)
InitScoring ==
    /\ hour = NoHour
    /\ InitBot
    /\ enabled = TRUE
    /\ bundle \in Bundles
    /\ market_state = NoState
    /\ weights = AlphaStack(ShippedWeights)

\* alpha_packet = self.alpha.get_market_state(data)
ScoreBundle ==
    /\ market_state = NoState
    /\ market_state' = get_market_state(weights, bundle)
    /\ UNCHANGED << hour, session_vars, paused, cycles_run, main_locals, lpc, bundle,
                    weights, position, requests, io_vars >>

NextScoring == ScoreBundle

SpecScoring == InitScoring /\ [][NextScoring]_vars

\* C10: the status of a packet is HIGH_CONVICTION iff final_alpha > 0.85,
\* REVIEW_REQUIRED iff 0.60 < final_alpha <= 0.85, and WAIT iff final_alpha <= 0.60
C10_StatusFromFinalAlpha ==
    (market_state # NoState /\ ~market_state.raised) =>
        LET a == market_state.final_alpha_score
        IN  /\ (market_state.status = "HIGH_CONVICTION") <=> FGt(a, ConvictionThreshold)
            /\ (market_state.status = "REVIEW_REQUIRED")
                   <=> (FGt(a, ReviewThreshold) /\ FLe(a, ConvictionThreshold))
            /\ (market_state.status = "WAIT") <=> FLe(a, ReviewThreshold)

\* C11: a weighted sum strictly above 0.85, however slightly, is classified
\* HIGH_CONVICTION: the tier is decided on the aggregated value, not on a rounded copy
C11_TierOnAggregatedAlpha ==
    (market_state # NoState /\ ~market_state.raised
     /\ FGt(market_state.m5_metrics.total, 100 * ConvictionThreshold))
        => market_state.status = "HIGH_CONVICTION"

\* C12: each of the four feature scores and the alpha of every packet _process_tf
\* returns is a defined number in [0, 1]
InUnitInterval(x) == IsNum(x) /\ 0 <= x.v /\ x.v <= FP

C12_ScoresInUnitInterval ==
    (market_state # NoState /\ ~market_state.raised) =>
        \A p \in {market_state.m5_metrics, market_state.h1_context} :
            /\ InUnitInterval(p.structure) /\ InUnitInterval(p.reversion)
            /\ InUnitInterval(p.volatility) /\ InUnitInterval(p.momentum)
            /\ InUnitInterval(p.alpha)

\* a series with fewer bars than the longest lookback of the extractors needs
\* (the 50-bar mean of the 14-bar ATR)
TooShort(tf) == tf.bars < AtrLength + VolAvgPeriod

\* C16: when the M5 or the H1 series of a bundle is shorter than an indicator's
\* lookback, scoring still returns packets: nothing is raised, and the alpha of each
\* packet is a defined number
C16_ShortSeriesStillScored ==
    (market_state # NoState /\ "M5" \in DOMAIN bundle /\ "H1" \in DOMAIN bundle
     /\ (TooShort(bundle["M5"]) \/ TooShort(bundle["H1"])))
        => /\ ~market_state.raised
           /\ IsNum(market_state.m5_metrics.alpha)
           /\ IsNum(market_state.h1_context.alpha)

\* the score the policy gives one side: d is the distance of the last bar to the swing
\* level in price units (low - level, or level - high), atr > 0 the ATR in price units
PolicyScore(d, atr) ==
    IF d <= 0 THEN FP
    ELSE IF 2 * d <= atr THEN FP - ((2 * d * FP) \div atr)
    ELSE 0

\* lowest low and highest high of the 20 bars before the last bar
PriorLow(tf) == IF tf.old_low <= tf.mid_low THEN tf.old_low ELSE tf.mid_low
PriorHigh(tf) == IF tf.old_high >= tf.mid_high THEN tf.old_high ELSE tf.mid_high

\* C17: the structure score of a packet is the larger of the low-side and the high-side
\* score, each 1.0 at a distance <= 0 to the swing level of the 20 bars before the
\* last bar, 1 - distance/0.5 up to 0.5 ATR, and 0.0 beyond
C17_StructureScorePolicy ==
    (market_state # NoState /\ ~market_state.raised) =>
        \A name \in {"M5", "H1"} :
            LET tf == bundle[name]
                p == IF name = "M5" THEN market_state.m5_metrics ELSE market_state.h1_context
                low_side == PolicyScore(tf.low - PriorLow(tf), tf.atr)
                high_side == PolicyScore(PriorHigh(tf) - tf.high, tf.atr)
            IN  tf.atr > 0 =>
                    p.structure = round2(Num(IF low_side >= high_side THEN low_side
                                             ELSE high_side))

\* a packet whose last bar sits a quarter ATR above the swing low and far below the
\* swing high, with higher lows between the swing bar and the last bar: score 0.5
C17_Witness ==
    /\ market_state # NoState /\ ~market_state.raised
    /\ bundle["M5"].atr = 4
    /\ bundle["M5"].low - bundle["M5"].old_low = 1
    /\ bundle["M5"].mid_low > bundle["M5"].low
    /\ bundle["M5"].old_high - bundle["M5"].high = 8
    /\ market_state.m5_metrics.structure = Num(FP \div 2)

\* both distances of a series are undefined: the last bar sits on both levels and the
\* ATR is 0, so each distance is 0/0
BothUndefined(tf) ==
    tf.atr = 0 /\ tf.low = PriorLow(tf) /\ tf.high = PriorHigh(tf)

\* C18: the structure tag of a packet is SUPPORT_LOW exactly when the low-side score is
\* strictly greater than the high-side score; it is RESISTANCE_HIGH otherwise, also when
\* the two sides tie or both distances are undefined
C18_TagStrictlyLowSide ==
    (market_state # NoState /\ ~market_state.raised) =>
        \A name \in {"M5", "H1"} :
            LET tf == bundle[name]
                p == IF name = "M5" THEN market_state.m5_metrics ELSE market_state.h1_context
                low_side == PolicyScore(tf.low - PriorLow(tf), tf.atr)
                high_side == PolicyScore(PriorHigh(tf) - tf.high, tf.atr)
            IN  /\ p.structure_type \in {"SUPPORT_LOW", "RESISTANCE_HIGH"}
                /\ tf.atr > 0 => ((p.structure_type = "SUPPORT_LOW") <=> (low_side > high_side))
                /\ BothUndefined(tf) => p.structure_type = "RESISTANCE_HIGH"

\* a packet of a bar that sweeps the swing low and the swing high at once: both sides
\* score 1.0 and the tag is RESISTANCE_HIGH
C18_Witness ==
    /\ market_state # NoState /\ ~market_state.raised
    /\ bundle["M5"].atr > 0
    /\ bundle["M5"].low < PriorLow(bundle["M5"])
    /\ bundle["M5"].high > PriorHigh(bundle["M5"])
    /\ market_state.m5_metrics.structure = Num(FP)
    /\ market_state.m5_metrics.structure_type = "RESISTANCE_HIGH"

\* C21: a bundle as get_multi_timeframe_data builds it (its four timeframes, each a full
\* series) holds every timeframe get_market_state reads, so scoring it raises nothing
C21_FetchedBundleScores ==
    (market_state # NoState /\ DOMAIN bundle = MT5Timeframes) => ~market_state.raised

(***************************************************************************)
(* The aggregator built on a weight table other than the literal of the    *)
(* source: an edit of the table, or a store into the weights attribute     *)
(***************************************************************************)
\* weight tables: the literal, one that sums to 1.10 and one that sums to 0.90
WeightTables ==
    { ShippedWeights,
      [ShippedWeights EXCEPT !.structure = 45],
      [ShippedWeights EXCEPT !.structure = 25] }

\* bundles of full-length series
FullBundles ==
    { MkBundle(MT5Timeframes \cup {"M5"}, m5, GoodTf) : m5 \in {t \in TfInputs : t.bars = 300} }

InitWeights ==
    /\ hour = NoHour
    /\ InitBot
    /\ enabled = TRUE
    /\ bundle \in FullBundles
    /\ market_state = NoState
    /\ \E table \in WeightTables : weights = AlphaStack(table)

SpecWeights == InitWeights /\ [][NextScoring]_vars

\* the sum of a weight table, in hundredths
WeightSum(w) == w.structure + w.reversion + w.volatility + w.momentum

TELEGRAM_CHAT_ID == "1001"

\* str(message.get("chat", {}).get("id")): the operator's chat, another chat, and an
\* update that carries no chat
ChatIds == {"1001", "2002", "None"}

\* message.get("text", ""): every command of the handler, two spellings that lower()
\* and strip() turn into commands, and a text that is no command
RawTexts == {"/help", "/start", "/status", "/alpha", "/reset", "/positions", "/balance",
             "/logs", "/test", "/pause", "/resume", "/PAUSE ", " /Reset", "hello"}

\* text.lower().strip()
lower_strip(text) ==
    IF text = "/PAUSE " THEN "/pause" ELSE IF text = " /Reset" THEN "/reset" ELSE text

Messages == [chat : ChatIds, text : RawTexts]

\* what the broker hands the /alpha command for each symbol: no data, or its bundle
AlphaFetches == {"NONE", "DATA"}

\* the bot state st after a command sent `sends` notifications and made `calls` broker
\* calls
replied(st, sends, calls) == [st EXCEPT !.effects = [sends |-> sends, broker_calls |-> calls]]

\* the if / elif chain of _handle_message for the normalised text: the bot state it
\* leaves and what it sent and called.  st is the bot state it starts from.
run_command(text, fetched, st) ==
    IF text \in {"/help", "/start", "/status", "/logs"} THEN replied(st, 1, 0)
    ELSE IF text = "/alpha"
         THEN IF fetched = "NONE"
              \* the first send, then per symbol a fetch and the "No Data" send
              THEN replied(st, 1 + Len(symbol_list), Len(symbol_list))
              \* the first send and the first fetch; get_market_state raises on the
              \* broker's bundle and the exception leaves the handler
              ELSE replied(st, 1, 1)
    ELSE IF text = "/reset"
         THEN replied([st EXCEPT !.strategic_bias = "NEUTRAL", !.key_levels = ZeroLevels,
                                 !.bias_writer = "reset", !.levels_writer = "reset"], 1, 0)
    ELSE IF text \in {"/positions", "/balance"} THEN replied(st, 1, 1)
    ELSE IF text = "/test" THEN replied(st, 2, 1)
    ELSE IF text = "/pause" THEN replied([st EXCEPT !.paused = TRUE], 1, 0)
    ELSE IF text = "/resume" THEN replied([st EXCEPT !.paused = FALSE], 1, 0)
    ELSE st

\* _handle_message without its security check
handle_message_unchecked(msg, fetched, st) == run_command(lower_strip(msg.text), fetched, st)

\* _handle_message: `if chat_id != settings.TELEGRAM_CHAT_ID: return`, then the commands
handle_message(msg, fetched, st) ==
    IF msg.chat # TELEGRAM_CHAT_ID THEN st
    ELSE run_command(lower_strip(msg.text), fetched, st)

\* _poll_updates: the next update of data["result"] is taken
ReceiveMessage ==
    /\ lpc = "poll"
    /\ message' \in Messages
    /\ effects' = NoEffects
    /\ lpc' = "handle"
    /\ UNCHANGED << hour, session_vars, paused, cycles_run, main_locals, scoring_vars,
                    position, requests, notifier_vars >>

\* self._handle_message(u.get("message", {}))
HandleMessage ==
    /\ lpc = "handle"
    /\ \E fetched \in AlphaFetches :
          LET st == [paused |-> paused, strategic_bias |-> strategic_bias,
                     key_levels |-> key_levels, bias_writer |-> bias_writer,
                     levels_writer |-> levels_writer, effects |-> effects]
              after == handle_message(message, fetched, st)
          IN  /\ paused' = after.paused
              /\ strategic_bias' = after.strategic_bias
              /\ key_levels' = after.key_levels
              /\ bias_writer' = after.bias_writer
              /\ levels_writer' = after.levels_writer
              /\ effects' = after.effects
    /\ lpc' = "poll"
    /\ UNCHANGED << hour, current_session, cycles_run, main_locals, scoring_vars, position, requests,
                    message, notifier_vars >>

NextListener ==
    \/ ReceiveMessage
    \/ HandleMessage
    \/ UpdateStrategicViewCall
    \/ UsvLockBias
    \/ UsvSetLevels
    \/ UsvReturn

SpecListener == Init /\ [][NextListener]_vars

\* C22: handling a message whose chat id is not the configured one changes neither the
\* paused flag nor the bias, the key levels or the session status, calls no broker
\* method and sends no notification, whatever its text
C22_UnauthorisedMessageHasNoEffect ==
    [][ (lpc = "handle" /\ lpc' = "poll" /\ message.chat # TELEGRAM_CHAT_ID)
        => /\ paused' = paused
           /\ strategic_bias' = strategic_bias
           /\ key_levels' = key_levels
           /\ current_session' = current_session
           /\ position' = position
           /\ effects' = NoEffects ]_vars

\* another chat sent /reset while the bot was paused with a bias locked, and the
\* handler has returned
C22_Witness ==
    /\ lpc = "poll" /\ message = [chat |-> "2002", text |-> "/reset"]
    /\ paused /\ strategic_bias = "BEARISH" /\ key_levels # ZeroLevels
    /\ effects = NoEffects
(***************************************************************************)
(* TelegramNotifier.send, on its own                                       *)
(***************************************************************************)
\* send(self, message, retries=3)
Retries == 3

\* what one self.session.post(...) ends with: the status code of the response (200, 400,
\* or another one: 429 and 500), or a requests.exceptions.RequestException
HttpOutcomes == {"200", "400", "429", "500", "EXC"}

\* TelegramNotifier.__init__: enabled = bool(token and chat_id)
InitNotifier ==
    /\ hour = NoHour
    /\ InitBot
    /\ bundle = NoBundle
    /\ market_state = NoState
    /\ weights = AlphaStack(ShippedWeights)
    /\ enabled \in BOOLEAN

\* the loop running one attempt more than range(retries) has
next_attempt_one_more(i) ==
    IF i + 1 <= Retries THEN [npc |-> "post", attempt |-> i + 1]
    ELSE [npc |-> "returned", attempt |-> i + 1]

\* `for attempt in range(retries)` after attempt i ended without a return: the next
\* attempt, or the logger.error after the loop and the return
next_attempt(i) ==
    IF i + 1 < Retries THEN [npc |-> "post", attempt |-> i + 1]
    ELSE [npc |-> "returned", attempt |-> i + 1]

\* if not self.enabled: return ; the url and the payload with parse_mode are built
SendCall ==
    /\ npc = "idle"
    /\ IF ~enabled
       THEN /\ npc' = "returned"
            /\ UNCHANGED << attempt, parse_mode >>
       ELSE /\ npc' = "post"
            /\ attempt' = 0
            /\ parse_mode' = TRUE
    /\ UNCHANGED << hour, session_vars, paused, cycles_run, main_locals, lpc, scoring_vars,
                    position, requests, message, effects, enabled, http_log >>

\* one pass of the loop body up to the re-post: the post and the branch on its outcome
Post ==
    /\ npc = "post"
    /\ \E outcome \in HttpOutcomes :
          /\ http_log' = Append(http_log, outcome)
          /\ IF outcome = "200"
             THEN /\ npc' = "returned"
                  /\ UNCHANGED << attempt, parse_mode >>
             ELSE IF outcome = "400"
             THEN \* payload.pop("parse_mode"): a KeyError once the key is gone, which the
                  \* except clause (RequestException) does not catch
                  /\ npc' = IF parse_mode THEN "repost" ELSE "raised"
                  /\ parse_mode' = FALSE
                  /\ UNCHANGED attempt
             ELSE \* another status: the warning ; an exception: the warning and the sleep
                  /\ npc' = next_attempt(attempt).npc
                  /\ attempt' = next_attempt(attempt).attempt
                  /\ UNCHANGED parse_mode
    /\ UNCHANGED << hour, session_vars, paused, cycles_run, main_locals, lpc, scoring_vars,
                    position, requests, message, effects, enabled >>

\* self.session.post(url, json=payload, timeout=10) without parse_mode, then return;
\* an exception of this post is caught by the except clause of the same try
Repost ==
    /\ npc = "repost"
    /\ \E outcome \in HttpOutcomes :
          /\ http_log' = Append(http_log, outcome)
          /\ IF outcome = "EXC"
             THEN /\ npc' = next_attempt(attempt).npc
                  /\ attempt' = next_attempt(attempt).attempt
             ELSE /\ npc' = "returned"
                  /\ UNCHANGED attempt
    /\ UNCHANGED << hour, session_vars, paused, cycles_run, main_locals, lpc, scoring_vars,
                    position, requests, message, effects, enabled, parse_mode >>

NextNotifier ==
    \/ SendCall
    \/ Post
    \/ Repost

\* every post returns or throws within its timeout of 10 seconds, and the caller's
\* thread keeps running
SpecNotifier == InitNotifier /\ [][NextNotifier]_vars /\ WF_vars(NextNotifier)

\* C26: send never raises to its caller, whatever the posts end with
C26_SendNeverRaises == npc # "raised"

\* the number of outcomes in the log that are a 200 response
Count200(log) == Cardinality({ i \in 1..Len(log) : log[i] = "200" })

\* C27: send terminates, and it is bounded: no post when disabled, no post after a 200
\* response, and never more than retries + 1 posts
C27_SendTerminatesBounded ==
    /\ [](/\ (~enabled => http_log = << >>)
          /\ Len(http_log) <= Retries + 1
          /\ \A i \in 1..Len(http_log) : http_log[i] = "200" => i = Len(http_log)
          /\ (Count200(http_log) > 0 => npc = "returned"))
    /\ <>(npc \in {"returned", "raised"})

\* the third attempt got a 400 and its plain-text re-post failed too: retries + 1 posts,
\* and send has returned
C27_Witness ==
    /\ npc = "returned" /\ enabled
    /\ http_log = << "500", "EXC", "400", "500" >>
(***************************************************************************)
(* manage_positions over the cycles that follow a trade, on its own        *)
(***************************************************************************)
\* number of cycles that manage the position
MaxManaged == 4

\* the positions execute_trade opens: a BUY or a SELL sized with the default risk, with
\* the brain's 5.0, or at the minimum volume
OpenedPositions ==
    { position_after(execute_trade(a, BasePrice, r), NoPosition) :
        a \in {"BUY", "SELL"}, r \in {0, DefaultRisk, 500} }

\* the bot after the cycle in which execute_trade opened a position
InitManage ==
    /\ hour = NoHour
    /\ current_session = "OPEN"
    /\ strategic_bias = "NEUTRAL"
    /\ key_levels = ZeroLevels
    /\ bias_writer = "init"
    /\ levels_writer = "init"
    /\ paused = FALSE
    /\ cycles_run = 1
    /\ pc = "sleep"
    /\ context = NoContext
    /\ usv_args = NoArgs
    /\ sym = 0
    /\ trend_tags = NoTags
    /\ result = NoResult
    /\ lpc = "poll"
    /\ position \in OpenedPositions
    /\ requests = NoRequests
    /\ message = NoMessage
    /\ effects = NoEffects
    /\ enabled = TRUE
    /\ npc = "idle"
    /\ attempt = 0
    /\ parse_mode = TRUE
    /\ http_log = << >>
    /\ bundle = NoBundle
    /\ market_state = NoState
    /\ weights = AlphaStack(ShippedWeights)

\* the manage_positions call of one more cycle, the price somewhere in the trade's favour
ManageCycle ==
    /\ cycles_run <= MaxManaged
    /\ cycles_run' = cycles_run + 1
    /\ \E move \in FavourableMoves :
          /\ position' = manage_position(position, quote_of(position, move))
          /\ requests' = count_requests(requests, position, quote_of(position, move))
    /\ UNCHANGED << hour, session_vars, paused, main_locals, lpc, scoring_vars, io_vars >>

NextManage == ManageCycle

SpecManage == InitManage /\ [][NextManage]_vars

\* C28: over the cycles a position is open, manage_positions asks for a partial close
\* of it at most once, and for the move of its stop to breakeven at most once
C28_PartialAndBreakevenOnce ==
    requests.partial <= 1 /\ requests.breakeven <= 1
====
